---- MODULE Spec2Model ----
(***************************************************************************)
(* Model of the workflow orchestrator of                                   *)
(* scripts/python_ui/services/workflow_orchestrator.py: the planner        *)
(* (_plan_execution_groups), the execution engine (execute_workflow,       *)
(* _execute_step_group, _resolve_step_input) and cancel_workflow.          *)
(*                                                                         *)
(* A step is a record [id, pattern, depends_on, parallel_group]; steps of a *)
(* workflow are a sequence in declaration order; a step object is named    *)
(* by its position in that sequence.  Step ids are integers: the id        *)
(* "step_i" of the builders is the integer i.  Texts (inputs, outputs) are *)
(* sequences of tokens, so that joining and comparing them is structural.  *)
(***************************************************************************)
EXTENDS Integers, Sequences, FiniteSets, TLC

VARIABLES
    steps,        \* Workflow.steps: the declared steps, in declaration order
    config,       \* Workflow.config: [continue_on_error, parallel_limit]
    status,       \* WorkflowStep.status of each step object (by position)
    result,       \* WorkflowStep.result of each step object (by position)
    wfStatus,     \* Workflow.status
    created,      \* whether the workflow object has been built
    activeWorkflows, \* the keys of WorkflowOrchestrator._active_workflows
    pc,           \* where execute_workflow stands: "idle" or "await" (in an executor call)
    groups,       \* execution_groups, the planner's output (also its accumulator)
    gi,           \* group_index (1-based) of the group being executed
    mode,         \* dispatch path of the current group: "single", "pool", "seq"
    inflight,     \* step objects whose executor call has been made and not returned
    groupResults, \* the results dict of _execute_step_group, in insertion order
    stepOutputs,  \* the step_outputs dict of execute_workflow
    seqIdx,       \* index in the group of the member being run one at a time
    calls,        \* the executor calls of the current run, in call order
    inputs,       \* input_text handed to the executor at each step's dispatch
    answers,      \* what the executor returned to each call of the current run
    ret,          \* the last event: what the call that has just returned returned,
                  \* or "execute_called" while execute_workflow has the last word
    remaining,    \* remaining_steps of the planner (stepwise planner only)
    planPc,       \* stepwise planner: "off", "loop", "done", "error"
    rsDeps,       \* _resolve_step_input under test: step.depends_on
    rsInput,      \* _resolve_step_input under test: the returned text
    endTime,      \* Workflow.end_time: none, or the clock reading stamped on it
    now,          \* the last reading of the clock (datetime.now()), in hours
    registry      \* _active_workflows as id -> [status, end_time] (cleanup only)

wfVars   == <<steps, config, status, result, wfStatus, created, activeWorkflows>>
execVars == <<pc, gi, mode, inflight, groupResults, stepOutputs, seqIdx, calls, inputs,
             answers>>
planVars == <<remaining, planPc>>
rsVars   == <<rsDeps, rsInput>>
clockVars == <<endTime, now>>
vars     == <<wfVars, execVars, groups, ret, planVars, rsVars, clockVars, registry>>

(***************************************************************************)
(* Bounds of the model.                                                    *)
(***************************************************************************)
MaxSteps == 3          \* steps of a planned workflow
MaxDeps == 2           \* length of a depends_on list of a planned workflow
MaxPatterns == 3       \* patterns given to create_workflow
MaxGroupSize == 2      \* patterns of one group given to create_parallel_workflow
MaxSequential == 1     \* sequential patterns given to create_parallel_workflow
MaxCustomSteps == 2    \* steps given to create_custom_workflow
MaxParallelLimit == 2  \* ExecutionConfig.parallel_limit
MaxClock == 2          \* readings of the clock that are told apart

(***************************************************************************)
(* Data.                                                                   *)
(***************************************************************************)
PENDING == "pending"
RUNNING == "running"
COMPLETED == "completed"
FAILED == "failed"
CANCELLED == "cancelled"
WorkflowStatus == {PENDING, RUNNING, COMPLETED, FAILED, CANCELLED}

None == "None"                      \* Python's None
Tags == {"g", "h"}                  \* parallel_group names in use
Patterns == {"a", "b"}              \* pattern names in use

WorkflowStep(id, pattern, deps, tag) ==
    [id |-> id, pattern |-> pattern, depends_on |-> deps, parallel_group |-> tag]

SeqsUpTo(S, n) == UNION {[1..k -> S] : k \in 0..n}
Range(f) == {f[x] : x \in DOMAIN f}

RECURSIVE Dedup(_)
Dedup(s) ==
    IF s = <<>> THEN <<>>
    ELSE <<Head(s)>> \o Dedup(SelectSeq(Tail(s), LAMBDA x : x # Head(s)))

\* Workflow.get_step: the first step with that id, 0 for Python's None
GetStep(stps, id) ==
    IF \E p \in DOMAIN stps : stps[p].id = id
    THEN CHOOSE p \in DOMAIN stps :
            stps[p].id = id /\ \A q \in 1..(p - 1) : stps[q].id # id
    ELSE 0

\* Workflow.get_steps_by_status, as the number of steps it returns
CountByStatus(st, s) == Cardinality({p \in DOMAIN st : st[p] = s})

(***************************************************************************)
(* The planner, _plan_execution_groups.  Its loop state is                 *)
(* [remaining, status, groups, pc]; it marks the LIVE step status.         *)
(***************************************************************************)
DependenciesSatisfied(stps, st, p) ==
    \A k \in DOMAIN stps[p].depends_on :
        LET d == GetStep(stps, stps[p].depends_on[k])
        IN  d # 0 /\ st[d] = COMPLETED

IsReady(stps, st, p) ==
    stps[p].depends_on = <<>> \/ DependenciesSatisfied(stps, st, p)

ReadySteps(stps, st, rem) == SelectSeq(rem, LAMBDA p : IsReady(stps, st, p))

GroupKey(stps, p) ==
    IF stps[p].parallel_group # None
    THEN stps[p].parallel_group
    ELSE "_sequential_" \o ToString(stps[p].id)

\* GroupReady with a slip: the ready steps of a round are always one group
GroupReadyOneGroup(stps, ready) == <<ready>>

\* "Group ready steps by parallel group": the groups a round appends
GroupReady(stps, ready) ==
    IF \E k \in DOMAIN ready : stps[ready[k]].parallel_group # None
    THEN LET keys == Dedup([k \in DOMAIN ready |-> GroupKey(stps, ready[k])])
         IN  [k \in DOMAIN keys |->
                SelectSeq(ready, LAMBDA p : GroupKey(stps, p) = keys[k])]
    ELSE <<ready>>

\* PlanRound with a slip: only the first ready step leaves remaining_steps
PlanRoundRemovesFirstOnly(stps, ps) ==
    LET ready == ReadySteps(stps, ps.status, ps.remaining)
    IN  IF ready = <<>>
        THEN [ps EXCEPT !.pc = "error"]
        ELSE [remaining |-> SelectSeq(ps.remaining, LAMBDA p : p # ready[1]),
              status    |-> [p \in DOMAIN ps.status |->
                                IF p = ready[1] THEN COMPLETED ELSE ps.status[p]],
              groups    |-> ps.groups \o GroupReady(stps, ready),
              pc        |-> "loop"]

\* PlanRound with a slip: when nothing is ready it plans what is left anyway
PlanRoundIgnoresCycle(stps, ps) ==
    LET found == ReadySteps(stps, ps.status, ps.remaining)
        ready == IF found = <<>> THEN ps.remaining ELSE found
    IN  [remaining |-> SelectSeq(ps.remaining, LAMBDA p : p \notin Range(ready)),
         status    |-> [p \in DOMAIN ps.status |->
                           IF p \in Range(ready) THEN COMPLETED ELSE ps.status[p]],
         groups    |-> ps.groups \o GroupReady(stps, ready),
         pc        |-> "loop"]

\* PlanRound with a slip: a step is ready as soon as one of its dependencies
\* is completed
PlanRoundAnyDependency(stps, ps) ==
    LET ready == SelectSeq(ps.remaining,
                    LAMBDA p : \/ stps[p].depends_on = <<>>
                               \/ \E k \in DOMAIN stps[p].depends_on :
                                     LET d == GetStep(stps, stps[p].depends_on[k])
                                     IN  d # 0 /\ ps.status[d] = COMPLETED)
    IN  IF ready = <<>>
        THEN [ps EXCEPT !.pc = "error"]
        ELSE [remaining |-> SelectSeq(ps.remaining, LAMBDA p : p \notin Range(ready)),
              status    |-> [p \in DOMAIN ps.status |->
                                IF p \in Range(ready) THEN COMPLETED ELSE ps.status[p]],
              groups    |-> ps.groups \o GroupReady(stps, ready),
              pc        |-> "loop"]

\* one iteration of "while remaining_steps"
PlanRound(stps, ps) ==
    LET ready == ReadySteps(stps, ps.status, ps.remaining)
    IN  IF ready = <<>>
        THEN [ps EXCEPT !.pc = "error"]
        ELSE [remaining |-> SelectSeq(ps.remaining, LAMBDA p : p \notin Range(ready)),
              status    |-> [p \in DOMAIN ps.status |->
                                IF p \in Range(ready) THEN COMPLETED ELSE ps.status[p]],
              groups    |-> ps.groups \o GroupReady(stps, ready),
              pc        |-> "loop"]

\* the code after the loop: reset every step to pending and return groups
PlanReturn(ps) ==
    [ps EXCEPT !.status = [p \in DOMAIN ps.status |-> PENDING], !.pc = "done"]

PlanStart(stps, st) ==
    [remaining |-> [p \in DOMAIN stps |-> p], status |-> st, groups |-> <<>>, pc |-> "loop"]

RECURSIVE PlanLoop(_, _)
PlanLoop(stps, ps) ==
    IF ps.pc # "loop" THEN ps
    ELSE IF ps.remaining = <<>> THEN PlanReturn(ps)
    ELSE PlanLoop(stps, PlanRound(stps, ps))

PlanExecutionGroups(stps, st) == PlanLoop(stps, PlanStart(stps, st))

(***************************************************************************)
(* Dependency graphs, stated independently of the planner.                 *)
(***************************************************************************)
StepIds(stps) == {stps[p].id : p \in DOMAIN stps}
UniqueIds(stps) == \A p, q \in DOMAIN stps : stps[p].id = stps[q].id => p = q
NoDangling(stps) ==
    \A p \in DOMAIN stps : Range(stps[p].depends_on) \subseteq StepIds(stps)
DependsOn(stps, a, b) ==
    \E p \in DOMAIN stps : stps[p].id = a /\ b \in Range(stps[p].depends_on)
\* ids reachable from a along at least one dependency edge
RECURSIVE ReachFrom(_, _, _)
ReachFrom(stps, front, seen) ==
    LET nxt == {b \in StepIds(stps) : \E a \in front : DependsOn(stps, a, b)} \ seen
    IN  IF nxt = {} THEN seen ELSE ReachFrom(stps, nxt, seen \cup nxt)
HasCycle(stps) ==
    \E a \in StepIds(stps) :
        a \in ReachFrom(stps, {a}, {})
Acyclic(stps) == ~HasCycle(stps)

\* the shapes a step of a planned workflow of n steps is drawn from:
\* depends_on lists of length <= MaxDeps over the ids 0..n-1 (self references
\* and repeats included), any tag or none
StepShapes(n) == [d : SeqsUpTo(0..(n - 1), MaxDeps), t : Tags \cup {None}]
ShapedSteps(n, f) == [p \in 1..n |-> WorkflowStep(p - 1, "a", f[p].d, f[p].t)]

(***************************************************************************)
(* Texts and dicts.                                                        *)
(***************************************************************************)
Some(x) == <<x>>                    \* an Optional that is set
NoneV == <<>>                       \* an Optional that is None

InitialKey == -1                    \* the key "_initial" of step_outputs
InitialInput == <<"input">>         \* input_text of execute_workflow
Separator == <<"---">>              \* "\n\n---\n\n"
EmptyText == <<>>                   \* ""

DictGet(d, k, default) == IF k \in DOMAIN d THEN d[k] ELSE default
DictSet(d, k, v) == [x \in DOMAIN d \cup {k} |-> IF x = k THEN v ELSE d[x]]
EmptyDict == [x \in {} |-> EmptyText]

\* results[step.id] = result on a dict kept in insertion order
ResultsPut(rs, id, res) ==
    IF \E k \in DOMAIN rs : rs[k].id = id
    THEN [k \in DOMAIN rs |-> IF rs[k].id = id THEN [id |-> id, res |-> res] ELSE rs[k]]
    ELSE Append(rs, [id |-> id, res |-> res])

RECURSIVE Join(_, _)
Join(texts, sep) ==
    IF texts = <<>> THEN EmptyText
    ELSE IF Len(texts) = 1 THEN texts[1]
    ELSE texts[1] \o sep \o Join(Tail(texts), sep)

(***************************************************************************)
(* _resolve_step_input                                                     *)
(***************************************************************************)
\* ResolveStepInput with a slip: several dependencies are joined in the
\* order of their ids, not in depends_on order
ResolveStepInputIdOrder(deps, outs) ==
    IF deps = <<>> THEN DictGet(outs, InitialKey, EmptyText)
    ELSE IF Len(deps) = 1
         THEN DictGet(outs, deps[1], DictGet(outs, InitialKey, EmptyText))
    ELSE LET ids  == {d \in Range(deps) : d \in DOMAIN outs}
             RECURSIVE Sorted(_)
             Sorted(S) == IF S = {} THEN <<>>
                          ELSE LET m == CHOOSE x \in S : \A y \in S : x <= y
                               IN  <<m>> \o Sorted(S \ {m})
             have == Sorted(ids)
             ins  == [k \in DOMAIN have |-> outs[have[k]]]
         IN  IF ins = <<>> THEN DictGet(outs, InitialKey, EmptyText)
             ELSE Join(ins, Separator)

ResolveStepInput(deps, outs) ==
    IF deps = <<>> THEN DictGet(outs, InitialKey, EmptyText)
    ELSE IF Len(deps) = 1
         THEN DictGet(outs, deps[1], DictGet(outs, InitialKey, EmptyText))
    ELSE LET have == SelectSeq(deps, LAMBDA d : d \in DOMAIN outs)
             ins  == [k \in DOMAIN have |-> outs[have[k]]]
         IN  IF ins = <<>> THEN DictGet(outs, InitialKey, EmptyText)
             ELSE Join(ins, Separator)

(***************************************************************************)
(* The step executor, runner.run_fabric: what a call can return.           *)
(***************************************************************************)
RunResult(success, output, error) ==
    [success |-> success, output |-> output, error |-> error]
ErrorText == <<"error">>
ExceptionText == <<"exception">>
OkResult(id) == RunResult(TRUE, <<"out" \o ToString(id)>>, NoneV)
FailResult(id) == RunResult(FALSE, <<"partial" \o ToString(id)>>, Some(ErrorText))
\* the result _execute_step_group builds when a pooled call raises
ExceptionResult == RunResult(FALSE, EmptyText, Some(ExceptionText))

(***************************************************************************)
(* The execution engine.  M is the state execute_workflow works on:        *)
(* [status, result, wfStatus, pc, gi, mode, inflight, groupResults,        *)
(*  stepOutputs, seqIdx, calls, inputs, ret].  A segment of execute that   *)
(* runs between two executor calls is one transition.                      *)
(***************************************************************************)
WfId == 1                           \* the uuid of the workflow

\* datetime.now(): a reading later than the last one (the same at the bound)
ReadClock(t) == IF t < MaxClock THEN t + 1 ELSE t

Machine ==
    [status |-> status, result |-> result, wfStatus |-> wfStatus, pc |-> pc,
     gi |-> gi, mode |-> mode, inflight |-> inflight, groupResults |-> groupResults,
     stepOutputs |-> stepOutputs, seqIdx |-> seqIdx, calls |-> calls,
     inputs |-> inputs, answers |-> answers, ret |-> ret,
     endTime |-> endTime, now |-> now]

SetMachine(M) ==
    /\ status' = M.status
    /\ result' = M.result
    /\ wfStatus' = M.wfStatus
    /\ pc' = M.pc
    /\ gi' = M.gi
    /\ mode' = M.mode
    /\ inflight' = M.inflight
    /\ groupResults' = M.groupResults
    /\ stepOutputs' = M.stepOutputs
    /\ seqIdx' = M.seqIdx
    /\ calls' = M.calls
    /\ inputs' = M.inputs
    /\ answers' = M.answers
    /\ ret' = M.ret
    /\ endTime' = M.endTime
    /\ now' = M.now

\* the dict execute_workflow returns
ExecutionResult(success, final_output, M) ==
    [op |-> "execute",
     success |-> success,
     final_output |-> final_output,
     step_results |-> M.result,
     total_steps |-> Len(M.status),
     successful_steps |-> CountByStatus(M.status, COMPLETED),
     failed_steps |-> CountByStatus(M.status, FAILED)]

\* execute_workflow leaves: the status and the end time are set, its locals
\* are gone
Leave(M, r, ws) ==
    [M EXCEPT !.wfStatus = ws, !.ret = r, !.pc = "idle", !.mode = "none",
              !.inflight = {}, !.groupResults = <<>>, !.stepOutputs = EmptyDict,
              !.seqIdx = 0, !.now = ReadClock(M.now),
              !.endTime = Some(ReadClock(M.now))]

\* FinalOutput with a slip: the scan runs from the first step to the last
FinalOutputFirstCompleted(st, res) ==
    LET done == {p \in DOMAIN st : st[p] = COMPLETED /\ res[p] # NoneV}
    IN  IF done = {} THEN NoneV
        ELSE Some(res[CHOOSE p \in done : \A q \in done : p <= q][1].output)

\* "Determine final output": the last declared step that is completed
FinalOutput(st, res) ==
    LET done == {p \in DOMAIN st : st[p] = COMPLETED /\ res[p] # NoneV}
    IN  IF done = {} THEN NoneV
        ELSE Some(res[CHOOSE p \in done : \A q \in done : q <= p][1].output)

\* the normal return of execute_workflow
Finish(M) ==
    Leave(M, ExecutionResult(TRUE, FinalOutput(M.status, M.result), M), COMPLETED)

\* the except branch of execute_workflow
Abort(M) == Leave(M, ExecutionResult(FALSE, NoneV, M), FAILED)

\* "Update step outputs and workflow state": the loop over group_results,
\* from entry k on; raised when it raises ExecutionError
RECURSIVE ApplyResults(_, _, _, _, _)
ApplyResults(stps, cfg, M, grs, k) ==
    IF k > Len(grs) THEN [m |-> M, raised |-> FALSE]
    ELSE LET p == GetStep(stps, grs[k].id)
             r == grs[k].res
         IN  IF p = 0 THEN ApplyResults(stps, cfg, M, grs, k + 1)
             ELSE IF r.success
             THEN ApplyResults(stps, cfg,
                    [M EXCEPT !.result[p] = Some(r), !.status[p] = COMPLETED,
                              !.stepOutputs = DictSet(@, grs[k].id, r.output)],
                    grs, k + 1)
             ELSE LET M1 == [M EXCEPT !.result[p] = Some(r), !.status[p] = FAILED]
                  IN  IF ~cfg.continue_on_error
                      THEN [m |-> M1, raised |-> TRUE]
                      ELSE ApplyResults(stps, cfg, M1, grs, k + 1)

\* "Check if steps can truly run in parallel (same parallel_group)"
CanParallel(stps, grp) ==
    /\ Cardinality({stps[grp[k]].parallel_group : k \in DOMAIN grp}) = 1
    /\ stps[grp[1]].parallel_group # None

\* UsePool with a slip: the group size is not compared with parallel_limit
UsePoolIgnoresLimit(stps, cfg, grp) == CanParallel(stps, grp)

UsePool(stps, cfg, grp) == CanParallel(stps, grp) /\ Len(grp) <= cfg.parallel_limit

\* resolve the input of step object p, mark it running and call the executor
Dispatch(stps, M, p) ==
    [M EXCEPT !.status[p] = RUNNING,
              !.inputs[p] = Some(ResolveStepInput(stps[p].depends_on, M.stepOutputs)),
              !.inflight = @ \cup {p},
              !.calls = Append(@, p)]

RECURSIVE SubmitAll(_, _, _, _)
SubmitAll(stps, M, grp, k) ==
    IF k > Len(grp) THEN M
    ELSE SubmitAll(stps, Dispatch(stps, M, grp[k]), grp, k + 1)

\* _execute_step_group up to its first executor call
StartGroup(stps, cfg, M, grp) ==
    LET M0 == [M EXCEPT !.groupResults = <<>>, !.pc = "await"]
    IN  IF Len(grp) = 1
        THEN Dispatch(stps, [M0 EXCEPT !.mode = "single", !.seqIdx = 0], grp[1])
        ELSE IF UsePool(stps, cfg, grp)
        THEN SubmitAll(stps, [M0 EXCEPT !.mode = "pool", !.seqIdx = 0], grp, 1)
        ELSE Dispatch(stps, [M0 EXCEPT !.mode = "seq", !.seqIdx = 1], grp[1])

\* the loop "for group_index, group_steps in enumerate(execution_groups)" from
\* group g on, up to the next executor call or the return
EnterGroup(stps, cfg, grps, M, g) ==
    IF g > Len(grps) THEN Finish(M)
    ELSE StartGroup(stps, cfg, [M EXCEPT !.gi = g], grps[g])

\* _execute_step_group has returned: apply its results, then go on
AfterGroup(stps, cfg, grps, M) ==
    LET a == ApplyResults(stps, cfg, M, M.groupResults, 1)
    IN  IF a.raised THEN Abort(a.m)
        ELSE EnterGroup(stps, cfg, grps, a.m, M.gi + 1)

\* OnResult with a slip: a pooled group is left at its first result
OnResultNoBarrier(stps, cfg, grps, M, p, res) ==
    LET id == stps[p].id
        M1 == [M EXCEPT !.inflight = @ \ {p},
                        !.groupResults = ResultsPut(@, id, res)]
    IN  IF M.mode = "single" \/ M.mode = "pool" THEN AfterGroup(stps, cfg, grps, M1)
        ELSE LET M2 == IF res.success
                       THEN [M1 EXCEPT !.stepOutputs = DictSet(@, id, res.output)]
                       ELSE M1
                 grp == grps[M.gi]
             IN  IF M.seqIdx < Len(grp)
                 THEN Dispatch(stps, [M2 EXCEPT !.seqIdx = @ + 1], grp[M.seqIdx + 1])
                 ELSE AfterGroup(stps, cfg, grps, M2)

\* the executor call of step object p returned res
OnResult(stps, cfg, grps, M, p, res) ==
    LET id == stps[p].id
        M1 == [M EXCEPT !.inflight = @ \ {p},
                        !.groupResults = ResultsPut(@, id, res)]
    IN  IF M.mode = "single" THEN AfterGroup(stps, cfg, grps, M1)
        ELSE IF M.mode = "pool"
        THEN IF M1.inflight = {} THEN AfterGroup(stps, cfg, grps, M1) ELSE M1
        ELSE LET M2 == IF res.success
                       THEN [M1 EXCEPT !.stepOutputs = DictSet(@, id, res.output)]
                       ELSE M1
                 grp == grps[M.gi]
             IN  IF M.seqIdx < Len(grp)
                 THEN Dispatch(stps, [M2 EXCEPT !.seqIdx = @ + 1], grp[M.seqIdx + 1])
                 ELSE AfterGroup(stps, cfg, grps, M2)

\* the executor call of step object p raised
OnException(stps, cfg, grps, M, p) ==
    IF M.mode = "pool"
    THEN OnResult(stps, cfg, grps, M, p, ExceptionResult)
    ELSE Abort([M EXCEPT !.inflight = @ \ {p}])

\* execute_workflow from its first line to its first executor call or its return
StartExecution(stps, cfg, M) ==
    LET plan == PlanExecutionGroups(stps, M.status)
        M0 == [M EXCEPT !.wfStatus = RUNNING, !.status = plan.status,
                        !.calls = <<>>, !.gi = 0,
                        !.inputs = [p \in DOMAIN stps |-> NoneV],
                        !.answers = [p \in DOMAIN stps |-> NoneV],
                        !.ret = [op |-> "execute_called"]]
    IN  IF plan.pc = "error" THEN Abort(M0)
        ELSE EnterGroup(stps, cfg, plan.groups,
                        [M0 EXCEPT !.stepOutputs = DictSet(EmptyDict, InitialKey, InitialInput)],
                        1)

(***************************************************************************)
(* Builders.                                                               *)
(***************************************************************************)
ExecutionConfig(coe, limit) == [continue_on_error |-> coe, parallel_limit |-> limit]
DefaultParallelLimit == 3           \* parallel_limit: int = 3
\* ExecutionConfig(): what a builder called without a config uses
DefaultConfig == ExecutionConfig(FALSE, DefaultParallelLimit)
Configs == {ExecutionConfig(c, l) : c \in BOOLEAN, l \in 1..MaxParallelLimit}

\* n times the pattern "a"
Uniform(n) == [k \in 1..n |-> "a"]

\* SequentialSteps with a slip: step_i depends on every earlier step
SequentialStepsDependOnAll(patterns) ==
    [p \in DOMAIN patterns |->
        WorkflowStep(p - 1, patterns[p], [k \in 1..(p - 1) |-> k - 1], None)]

\* create_workflow: step_i runs patterns[i] and depends on step_{i-1}
SequentialSteps(patterns) ==
    [p \in DOMAIN patterns |->
        WorkflowStep(p - 1, patterns[p], IF p > 1 THEN <<p - 2>> ELSE <<>>, None)]

\* create_parallel_workflow: pg is parallel_groups as its items, in dict order,
\* each [tag, patterns]: a group name and its patterns
RECURSIVE ParallelPairs(_)
ParallelPairs(pg) ==
    IF pg = <<>> THEN <<>>
    ELSE [k \in DOMAIN pg[1].patterns |-> [tag |-> pg[1].tag, pattern |-> pg[1].patterns[k]]]
         \o ParallelPairs(Tail(pg))

\* ParallelSteps with a slip: the sequential steps depend on the steps of the
\* last group only
ParallelStepsLastGroupOnly(pg, sequential_patterns) ==
    LET pairs == ParallelPairs(pg)
        np == Len(pairs)
        nl == IF pg = <<>> THEN 0 ELSE Len(pg[Len(pg)].patterns)
        parallel_step_ids == [k \in 1..nl |-> np - nl + k - 1]
    IN  [p \in 1..(np + Len(sequential_patterns)) |->
            IF p <= np THEN WorkflowStep(p - 1, pairs[p].pattern, <<>>, pairs[p].tag)
            ELSE WorkflowStep(p - 1, sequential_patterns[p - np], parallel_step_ids, None)]

ParallelSteps(pg, sequential_patterns) ==
    LET pairs == ParallelPairs(pg)
        np == Len(pairs)
        parallel_step_ids == [k \in 1..np |-> k - 1]
    IN  [p \in 1..(np + Len(sequential_patterns)) |->
            IF p <= np THEN WorkflowStep(p - 1, pairs[p].pattern, <<>>, pairs[p].tag)
            ELSE WorkflowStep(p - 1, sequential_patterns[p - np], parallel_step_ids, None)]

\* CustomStepsValid with a slip: only the first dependency of a step is looked at
CustomStepsValidFirstDependency(stps) ==
    \A p \in DOMAIN stps :
        stps[p].depends_on # <<>> => stps[p].depends_on[1] \in StepIds(stps)

\* the check of create_custom_workflow: no depends_on id outside the list
CustomStepsValid(stps) ==
    \A p \in DOMAIN stps : \A k \in DOMAIN stps[p].depends_on :
        stps[p].depends_on[k] \in StepIds(stps)

\* the parallel_groups arguments tried: one group, or the groups "g" then "h"
ParallelGroupArgs ==
    {<<[tag |-> "g", patterns |-> Uniform(n)]>> : n \in 1..MaxGroupSize}
    \cup {<<[tag |-> "g", patterns |-> Uniform(n)], [tag |-> "h", patterns |-> Uniform(1)]>> :
             n \in 1..MaxGroupSize}

\* the step lists given to create_custom_workflow: n <= MaxCustomSteps steps
\* with ids 0..n-1, each depends_on a list of up to two distinct ids among
\* 0..n (the id n names no step), tagged "g" or not at all
DistinctSeqs(S) == {s \in SeqsUpTo(S, 2) : \A i, j \in DOMAIN s : s[i] = s[j] => i = j}
CustomStepShapes(n) == [d : DistinctSeqs(0..n), t : {None, "g"}]
CustomStepArgs(n, f) == [p \in 1..n |-> WorkflowStep(p - 1, "a", f[p].d, f[p].t)]

Register(stps, cfg) ==
    /\ ~created
    /\ created' = TRUE
    /\ steps' = stps
    /\ config' = cfg
    /\ status' = [p \in DOMAIN stps |-> PENDING]
    /\ result' = [p \in DOMAIN stps |-> NoneV]
    /\ inputs' = [p \in DOMAIN stps |-> NoneV]
    /\ answers' = [p \in DOMAIN stps |-> NoneV]
    /\ wfStatus' = PENDING
    /\ endTime' = NoneV
    /\ activeWorkflows' = activeWorkflows \cup {WfId}
    /\ UNCHANGED <<pc, gi, mode, inflight, groupResults, stepOutputs, seqIdx, calls,
                   groups, planVars, rsVars, now, registry>>

CreateWorkflow(patterns, cfg) ==
    /\ Register(SequentialSteps(patterns), cfg)
    /\ ret' = [op |-> "create", by |-> "create_workflow", ok |-> TRUE,
               patterns |-> patterns]

CreateParallelWorkflow(pg, sequential_patterns, cfg) ==
    /\ Register(ParallelSteps(pg, sequential_patterns), cfg)
    /\ ret' = [op |-> "create", by |-> "create_parallel_workflow", ok |-> TRUE,
               parallel_groups |-> pg, sequential_patterns |-> sequential_patterns]

CreateCustomWorkflow(stps, cfg) ==
    IF CustomStepsValid(stps)
    THEN /\ Register(stps, cfg)
         /\ ret' = [op |-> "create", by |-> "create_custom_workflow", ok |-> TRUE,
                    steps |-> stps]
    ELSE /\ ret' = [op |-> "create", by |-> "create_custom_workflow", ok |-> FALSE,
                    steps |-> stps]                 \* raise ValueError
         /\ UNCHANGED <<wfVars, execVars, groups, planVars, rsVars, clockVars, registry>>

(***************************************************************************)
(* execute_workflow, the executor's answers, cancel_workflow.              *)
(***************************************************************************)
ExecuteWorkflow ==
    /\ created
    /\ pc = "idle"
    /\ LET plan == PlanExecutionGroups(steps, status)
       IN  groups' = IF plan.pc = "error" THEN <<>> ELSE plan.groups
    /\ SetMachine(StartExecution(steps, config, Machine))
    /\ UNCHANGED <<steps, config, created, activeWorkflows, planVars, rsVars, registry>>

ExecutorReturns(p, ok) ==
    /\ pc = "await"
    /\ p \in inflight
    /\ LET res == IF ok THEN OkResult(steps[p].id) ELSE FailResult(steps[p].id)
       IN  SetMachine(OnResult(steps, config, groups,
                               [Machine EXCEPT !.answers[p] = Some(res),
                                               !.ret = [op |-> "execute_called"]],
                               p, res))
    /\ UNCHANGED <<steps, config, created, activeWorkflows, groups, planVars, rsVars,
                   registry>>

ExecutorRaises(p) ==
    /\ pc = "await"
    /\ p \in inflight
    /\ SetMachine(OnException(steps, config, groups,
                              [Machine EXCEPT !.ret = [op |-> "execute_called"]], p))
    /\ UNCHANGED <<steps, config, created, activeWorkflows, groups, planVars, rsVars,
                   registry>>

\* CancelWorkflow with a slip: an id that is not registered cancels the
\* workflow at hand
CancelWorkflowAnyId(workflow_id) ==
    /\ wfStatus' = CANCELLED
    /\ status' = [p \in DOMAIN status |->
                     IF status[p] = RUNNING THEN CANCELLED ELSE status[p]]
    /\ now' = ReadClock(now)
    /\ endTime' = Some(now')
    /\ ret' = [op |-> "cancel", id |-> workflow_id, value |-> TRUE]
    /\ UNCHANGED <<steps, config, result, created, activeWorkflows, execVars,
                   groups, planVars, rsVars, registry>>

\* CancelWorkflow with a slip: every step that is not completed is cancelled
CancelWorkflowEveryOpenStep(workflow_id) ==
    IF workflow_id \in activeWorkflows
    THEN /\ wfStatus' = CANCELLED
         /\ status' = [p \in DOMAIN status |->
                          IF status[p] # COMPLETED THEN CANCELLED ELSE status[p]]
         /\ now' = ReadClock(now)
         /\ endTime' = Some(now')
         /\ ret' = [op |-> "cancel", id |-> workflow_id, value |-> TRUE]
         /\ UNCHANGED <<steps, config, result, created, activeWorkflows, execVars,
                        groups, planVars, rsVars, registry>>
    ELSE /\ ret' = [op |-> "cancel", id |-> workflow_id, value |-> FALSE]
         /\ UNCHANGED <<wfVars, execVars, groups, planVars, rsVars, clockVars, registry>>

CancelWorkflow(workflow_id) ==
    IF workflow_id \in activeWorkflows
    THEN /\ wfStatus' = CANCELLED
         /\ status' = [p \in DOMAIN status |->
                          IF status[p] = RUNNING THEN CANCELLED ELSE status[p]]
         /\ now' = ReadClock(now)
         /\ endTime' = Some(now')
         /\ ret' = [op |-> "cancel", id |-> workflow_id, value |-> TRUE]
         /\ UNCHANGED <<steps, config, result, created, activeWorkflows, execVars,
                        groups, planVars, rsVars, registry>>
    ELSE /\ ret' = [op |-> "cancel", id |-> workflow_id, value |-> FALSE]
         /\ UNCHANGED <<wfVars, execVars, groups, planVars, rsVars, clockVars, registry>>

\* _estimate_completion_time: a time (the token "eta") only for a running
\* workflow that has pending steps
EstimateCompletionTime(ws, st) ==
    IF ws # RUNNING THEN NoneV
    ELSE IF CountByStatus(st, PENDING) = 0 THEN NoneV
    ELSE Some("eta")

\* completed_steps / total_steps if total_steps > 0 else 0.0, as a fraction
Progress(completed_steps, total_steps) ==
    IF total_steps > 0 THEN [num |-> completed_steps, den |-> total_steps]
    ELSE [num |-> 0, den |-> 1]

\* the dict get_workflow_progress returns for a registered workflow: the
\* fields computed from the steps and the status
ProgressDict(workflow_id, ws, st) ==
    [op |-> "progress", id |-> workflow_id, found |-> TRUE,
     status |-> ws,
     progress |-> Progress(CountByStatus(st, COMPLETED), Len(st)),
     total_steps |-> Len(st),
     completed_steps |-> CountByStatus(st, COMPLETED),
     failed_steps |-> CountByStatus(st, FAILED),
     running_steps |-> CountByStatus(st, RUNNING),
     estimated_completion |-> EstimateCompletionTime(ws, st)]

\* {"error": "Workflow not found"}
ProgressNotFound(workflow_id) ==
    [op |-> "progress", id |-> workflow_id, found |-> FALSE,
     error |-> "Workflow not found"]

\* GetWorkflowProgress with a slip: failed steps count as progress
GetWorkflowProgressCountsFailed(workflow_id) ==
    /\ ret' = IF workflow_id \in activeWorkflows
              THEN [ProgressDict(workflow_id, wfStatus, status) EXCEPT
                       !.progress = Progress(CountByStatus(status, COMPLETED)
                                               + CountByStatus(status, FAILED),
                                             Len(status))]
              ELSE ProgressNotFound(workflow_id)
    /\ UNCHANGED <<wfVars, execVars, groups, planVars, rsVars, clockVars, registry>>

GetWorkflowProgress(workflow_id) ==
    /\ ret' = IF workflow_id \in activeWorkflows
              THEN ProgressDict(workflow_id, wfStatus, status)
              ELSE ProgressNotFound(workflow_id)
    /\ UNCHANGED <<wfVars, execVars, groups, planVars, rsVars, clockVars, registry>>

(***************************************************************************)
(* Spec: one workflow from its construction on, under any sequence of      *)
(* execute, cancel and progress calls and executor answers.                *)
(***************************************************************************)
Init ==
    /\ steps = <<>>
    /\ config = ExecutionConfig(FALSE, 1)
    /\ status = <<>>
    /\ result = <<>>
    /\ wfStatus = PENDING
    /\ created = FALSE
    /\ activeWorkflows = {}
    /\ pc = "idle"
    /\ groups = <<>>
    /\ gi = 0
    /\ mode = "none"
    /\ inflight = {}
    /\ groupResults = <<>>
    /\ stepOutputs = EmptyDict
    /\ seqIdx = 0
    /\ calls = <<>>
    /\ inputs = <<>>
    /\ answers = <<>>
    /\ ret = [op |-> "none"]
    /\ remaining = <<>>
    /\ planPc = "off"
    /\ rsDeps = <<>>
    /\ rsInput = NoneV
    /\ endTime = NoneV
    /\ now = 0
    /\ registry = <<>>

Next ==
    \/ ~created /\ \E n \in 0..MaxPatterns, cfg \in Configs :
          CreateWorkflow(Uniform(n), cfg)
    \/ ~created /\ \E pg \in ParallelGroupArgs, nseq \in 0..MaxSequential, cfg \in Configs :
          CreateParallelWorkflow(pg, Uniform(nseq), cfg)
    \/ ~created /\ \E n \in 1..MaxCustomSteps, cfg \in Configs :
          \E f \in [1..n -> CustomStepShapes(n)] :
              CreateCustomWorkflow(CustomStepArgs(n, f), cfg)
    \/ ExecuteWorkflow
    \/ \E p \in DOMAIN steps, ok \in BOOLEAN : ExecutorReturns(p, ok)
    \/ \E p \in DOMAIN steps : ExecutorRaises(p)
    \/ \E workflow_id \in {WfId, WfId + 1} : CancelWorkflow(workflow_id)
    \/ \E workflow_id \in {WfId, WfId + 1} : GetWorkflowProgress(workflow_id)

Spec == Init /\ [][Next]_vars

(***************************************************************************)
(* SpecPlan: _plan_execution_groups alone, one loop iteration at a time,   *)
(* on every workflow of StepShapes, all of its steps pending.              *)
(***************************************************************************)
PlanState == [remaining |-> remaining, status |-> status, groups |-> groups, pc |-> planPc]

SetPlanState(ps) ==
    /\ remaining' = ps.remaining
    /\ status' = ps.status
    /\ groups' = ps.groups
    /\ planPc' = ps.pc

PlanIterate ==
    /\ planPc = "loop"
    /\ remaining # <<>>
    /\ SetPlanState(PlanRound(steps, PlanState))
    /\ UNCHANGED <<steps, config, result, wfStatus, created, activeWorkflows,
                   execVars, ret, rsVars, clockVars, registry>>

PlanFinish ==
    /\ planPc = "loop"
    /\ remaining = <<>>
    /\ SetPlanState(PlanReturn(PlanState))
    /\ UNCHANGED <<steps, config, result, wfStatus, created, activeWorkflows,
                   execVars, ret, rsVars, clockVars, registry>>

InitPlan ==
    /\ \E n \in 0..MaxSteps : \E f \in [1..n -> StepShapes(n)] :
          /\ steps = ShapedSteps(n, f)
          /\ status = [p \in 1..n |-> PENDING]
          /\ result = [p \in 1..n |-> NoneV]
          /\ inputs = [p \in 1..n |-> NoneV]
          /\ answers = [p \in 1..n |-> NoneV]
          /\ remaining = PlanStart(steps, status).remaining
    /\ groups = <<>>
    /\ planPc = "loop"
    /\ config = ExecutionConfig(FALSE, 1)
    /\ wfStatus = RUNNING
    /\ created = TRUE
    /\ activeWorkflows = {}
    /\ pc = "idle"
    /\ gi = 0
    /\ mode = "none"
    /\ inflight = {}
    /\ groupResults = <<>>
    /\ stepOutputs = EmptyDict
    /\ seqIdx = 0
    /\ calls = <<>>
    /\ ret = [op |-> "none"]
    /\ rsDeps = <<>>
    /\ rsInput = NoneV
    /\ endTime = NoneV
    /\ now = 0
    /\ registry = <<>>

NextPlan == PlanIterate \/ PlanFinish

SpecPlan == InitPlan /\ [][NextPlan]_vars /\ WF_vars(NextPlan)

(***************************************************************************)
(* SpecResolve: _resolve_step_input alone, on every depends_on list of     *)
(* length <= MaxResolveDeps over MaxResolveIds ids and every step_outputs  *)
(* dict that holds "_initial" and the texts "A", "B" for some of the ids.  *)
(***************************************************************************)
MaxResolveDeps == 3
MaxResolveIds == 3
ResolveIds == 0..(MaxResolveIds - 1)
ResolveTexts == {<<"A">>, <<"B">>}

Resolve ==
    /\ rsInput = NoneV
    /\ rsInput' = Some(ResolveStepInput(rsDeps, stepOutputs))
    /\ UNCHANGED <<wfVars, pc, gi, mode, inflight, groupResults, stepOutputs, seqIdx,
                   calls, inputs, answers, groups, ret, planVars, rsDeps, clockVars,
                   registry>>

InitResolve ==
    /\ rsDeps \in SeqsUpTo(ResolveIds, MaxResolveDeps)
    /\ \E have \in SUBSET ResolveIds : \E f \in [have -> ResolveTexts] :
          stepOutputs = DictSet(f, InitialKey, InitialInput)
    /\ rsInput = NoneV
    /\ steps = <<>>
    /\ config = ExecutionConfig(FALSE, 1)
    /\ status = <<>>
    /\ result = <<>>
    /\ wfStatus = PENDING
    /\ created = FALSE
    /\ activeWorkflows = {}
    /\ pc = "idle"
    /\ groups = <<>>
    /\ gi = 0
    /\ mode = "none"
    /\ inflight = {}
    /\ groupResults = <<>>
    /\ seqIdx = 0
    /\ calls = <<>>
    /\ inputs = <<>>
    /\ answers = <<>>
    /\ ret = [op |-> "none"]
    /\ remaining = <<>>
    /\ planPc = "off"
    /\ endTime = NoneV
    /\ now = 0
    /\ registry = <<>>

NextResolve == Resolve

SpecResolve == InitResolve /\ [][NextResolve]_vars

(***************************************************************************)
(* SpecCleanup: the registry _active_workflows under create, execute,      *)
(* cancel and cleanup_completed_workflows, with the clock in hours.  A     *)
(* workflow is kept as the two fields cleanup reads, [status, end_time].   *)
(***************************************************************************)
MaxWorkflows == 2      \* workflows ever registered at the same time
MaxHours == 3          \* hours the clock runs
MaxAge == 2            \* max_age_hours given to cleanup_completed_workflows
WorkflowIds == 1..MaxWorkflows

RegistryPut(reg, id, wf) == [x \in DOMAIN reg \cup {id} |-> IF x = id THEN wf ELSE reg[x]]
RegistryDel(reg, ids) == [x \in DOMAIN reg \ ids |-> reg[x]]

\* a create_* call registers a pending workflow under a new id
RegistryCreate(id) ==
    /\ id \notin DOMAIN registry
    /\ registry' = RegistryPut(registry, id, [status |-> PENDING, end_time |-> NoneV])
    /\ ret' = [op |-> "create", ok |-> TRUE]
    /\ UNCHANGED <<wfVars, execVars, groups, planVars, rsVars, clockVars>>

\* execute_workflow starts on a registered workflow
RegistryExecuteStarts(id) ==
    /\ id \in DOMAIN registry
    /\ registry' = [registry EXCEPT ![id].status = RUNNING]
    /\ ret' = [op |-> "execute_called"]
    /\ UNCHANGED <<wfVars, execVars, groups, planVars, rsVars, clockVars>>

\* execute_workflow returns: completed or failed, the end time stamped
RegistryExecuteReturns(id, ws) ==
    /\ id \in DOMAIN registry
    /\ registry[id].status \in {RUNNING, CANCELLED}
    /\ registry' = [registry EXCEPT ![id] = [status |-> ws, end_time |-> Some(now)]]
    /\ ret' = [op |-> "execute", success |-> (ws = COMPLETED)]
    /\ UNCHANGED <<wfVars, execVars, groups, planVars, rsVars, clockVars>>

\* cancel_workflow on a registered workflow
RegistryCancel(id) ==
    /\ id \in DOMAIN registry
    /\ registry' = [registry EXCEPT ![id] = [status |-> CANCELLED, end_time |-> Some(now)]]
    /\ ret' = [op |-> "cancel", id |-> id, value |-> TRUE]
    /\ UNCHANGED <<wfVars, execVars, groups, planVars, rsVars, clockVars>>

\* an hour passes
Tick ==
    /\ now < MaxHours
    /\ now' = now + 1
    /\ UNCHANGED <<wfVars, execVars, groups, planVars, rsVars, endTime, registry, ret>>

\* cleanup_completed_workflows with a slip: the status is not looked at
CleanupIgnoresStatus(max_age_hours) ==
    LET cutoff_time == now - max_age_hours
        workflows_to_remove ==
            {id \in DOMAIN registry :
                /\ registry[id].end_time # NoneV
                /\ registry[id].end_time[1] < cutoff_time}
    IN  /\ registry' = RegistryDel(registry, workflows_to_remove)
        /\ ret' = [op |-> "cleanup", max_age_hours |-> max_age_hours,
                   count |-> Cardinality(workflows_to_remove)]
        /\ UNCHANGED <<wfVars, execVars, groups, planVars, rsVars, clockVars>>

CleanupCompletedWorkflows(max_age_hours) ==
    LET cutoff_time == now - max_age_hours
        workflows_to_remove ==
            {id \in DOMAIN registry :
                /\ registry[id].status \in {COMPLETED, FAILED, CANCELLED}
                /\ registry[id].end_time # NoneV
                /\ registry[id].end_time[1] < cutoff_time}
    IN  /\ registry' = RegistryDel(registry, workflows_to_remove)
        /\ ret' = [op |-> "cleanup", max_age_hours |-> max_age_hours,
                   count |-> Cardinality(workflows_to_remove)]
        /\ UNCHANGED <<wfVars, execVars, groups, planVars, rsVars, clockVars>>

InitCleanup == Init

NextCleanup ==
    \/ \E id \in WorkflowIds : RegistryCreate(id)
    \/ \E id \in WorkflowIds : RegistryExecuteStarts(id)
    \/ \E id \in WorkflowIds, ws \in {COMPLETED, FAILED} : RegistryExecuteReturns(id, ws)
    \/ \E id \in WorkflowIds : RegistryCancel(id)
    \/ Tick
    \/ \E max_age_hours \in 0..MaxAge : CleanupCompletedWorkflows(max_age_hours)

SpecCleanup == InitCleanup /\ [][NextCleanup]_vars

(***************************************************************************)
(* SpecCreate: the three builders alone, on every pattern list, every      *)
(* parallel_groups dict and every custom step list of the bounds, step ids *)
(* that repeat included.  create_custom_workflow is called without a       *)
(* config; a call of it that raises is also made when a workflow is        *)
(* registered.                                                             *)
(***************************************************************************)
\* parallel_groups with the group names o, in that order, and the patterns f
ParallelGroups(o, f) == [k \in DOMAIN o |-> [tag |-> o[k], patterns |-> f[k]]]

\* custom steps whose ids are drawn freely among 0..n-1
CustomStepShapesAnyId(n) ==
    [id : 0..(n - 1), d : DistinctSeqs(0..n), t : {None, "g"}]
CustomStepArgsAnyId(n, f) ==
    [p \in 1..n |-> WorkflowStep(f[p].id, "a", f[p].d, f[p].t)]

InitCreate == Init

NextCreate ==
    \/ ~created /\ \E patterns \in SeqsUpTo(Patterns, MaxPatterns), cfg \in Configs :
          CreateWorkflow(patterns, cfg)
    \/ ~created /\ \E o \in DistinctSeqs(Tags), cfg \in Configs :
          \E f \in [DOMAIN o -> SeqsUpTo(Patterns, MaxGroupSize)] :
              \E sequential_patterns \in SeqsUpTo(Patterns, MaxSequential) :
                  CreateParallelWorkflow(ParallelGroups(o, f), sequential_patterns, cfg)
    \/ \E n \in 1..MaxCustomSteps :
          /\ created => n = 1
          /\ \E f \in [1..n -> CustomStepShapesAnyId(n)] :
                CreateCustomWorkflow(CustomStepArgsAnyId(n, f), DefaultConfig)

SpecCreate == InitCreate /\ [][NextCreate]_vars

(***************************************************************************)
(* validate_workflow and _has_circular_dependencies.  The violations are   *)
(* records [kind, ...] in the order the code appends them.                 *)
(***************************************************************************)
\* "for step in workflow.steps: if current in step.depends_on: ..." from step
\* k on; kahn is [in_degree, queue]
RECURSIVE KahnRelax(_, _, _, _)
KahnRelax(stps, kahn, current, k) ==
    IF k > Len(stps) THEN kahn
    ELSE IF current \in Range(stps[k].depends_on)
         THEN LET id == stps[k].id
                  d  == kahn.in_degree[id] - 1
              IN  KahnRelax(stps,
                            [in_degree |-> [kahn.in_degree EXCEPT ![id] = d],
                             queue |-> IF d = 0 THEN Append(kahn.queue, id)
                                       ELSE kahn.queue],
                            current, k + 1)
         ELSE KahnRelax(stps, kahn, current, k + 1)

\* "while queue": the number of ids processed when the queue is empty
RECURSIVE KahnLoop(_, _, _)
KahnLoop(stps, kahn, processed) ==
    IF kahn.queue = <<>> THEN processed
    ELSE KahnLoop(stps,
                  KahnRelax(stps, [kahn EXCEPT !.queue = Tail(@)], Head(kahn.queue), 1),
                  processed + 1)

\* the in_degree dict: the last step with an id gives its entry
InDegree(stps) ==
    [id \in StepIds(stps) |->
        LET last == CHOOSE p \in DOMAIN stps :
                        stps[p].id = id /\ \A q \in DOMAIN stps : stps[q].id = id => q <= p
        IN  Len(stps[last].depends_on)]

\* _has_circular_dependencies; nothing in its try block can raise (every id
\* it looks up is a key of in_degree), so the except branch is never taken
HasCircularDependencies(stps) ==
    LET roots == SelectSeq([p \in DOMAIN stps |-> p],
                           LAMBDA p : stps[p].depends_on = <<>>)
        queue == [k \in DOMAIN roots |-> stps[roots[k]].id]
    IN  KahnLoop(stps, [in_degree |-> InDegree(stps), queue |-> queue], 0) # Len(stps)

\* "Check dependencies exist", from dependency j of step k on
RECURSIVE DanglingErrors(_, _, _)
DanglingErrors(stps, k, j) ==
    IF k > Len(stps) THEN <<>>
    ELSE IF j > Len(stps[k].depends_on) THEN DanglingErrors(stps, k + 1, 1)
    ELSE (IF stps[k].depends_on[j] \notin StepIds(stps)
          THEN <<[kind |-> "dangling", step |-> stps[k].id, dep |-> stps[k].depends_on[j]]>>
          ELSE <<>>)
         \o DanglingErrors(stps, k, j + 1)

\* "Check pattern names are valid"; available is what patterns.list_patterns()
\* gives: [ok, names], ok false when it raises
RECURSIVE PatternErrors(_, _, _)
PatternErrors(stps, available, k) ==
    IF ~available.ok \/ k > Len(stps) THEN <<>>
    ELSE (IF stps[k].pattern \notin available.names
          THEN <<[kind |-> "unknown_pattern", step |-> stps[k].id]>>
          ELSE <<>>)
         \o PatternErrors(stps, available, k + 1)

\* the list validate_workflow returns
ValidateErrors(stps, available) ==
    IF stps = <<>> THEN <<[kind |-> "no_steps"]>>
    ELSE (IF Cardinality(StepIds(stps)) # Len(stps)
          THEN <<[kind |-> "duplicate_ids"]>> ELSE <<>>)
         \o DanglingErrors(stps, 1, 1)
         \o (IF HasCircularDependencies(stps) THEN <<[kind |-> "cycle"]>> ELSE <<>>)
         \o PatternErrors(stps, available, 1)

(***************************************************************************)
(* SpecValidate: validate_workflow on every workflow of up to              *)
(* MaxValidateSteps steps whose ids are drawn among 0..n-1 and whose       *)
(* depends_on lists, of length <= MaxValidateDeps, are drawn among 0..n    *)
(* (n is the id of no step), under every answer of the pattern registry.   *)
(***************************************************************************)
MaxValidateSteps == 3
MaxValidateDeps == 2

ValidateShapes(n) == [id : 0..(n - 1), d : SeqsUpTo(0..n, MaxValidateDeps)]
ValidateSteps(n, f) == [p \in 1..n |-> WorkflowStep(f[p].id, "a", f[p].d, None)]
\* what patterns.list_patterns() may give
Available == {[ok |-> TRUE, names |-> {"a"}], [ok |-> TRUE, names |-> {}],
              [ok |-> FALSE, names |-> {}]}

ValidateWorkflow(available) ==
    /\ ret.op # "validate"
    /\ ret' = [op |-> "validate", errors |-> ValidateErrors(steps, available),
               available |-> available]
    /\ UNCHANGED <<wfVars, execVars, groups, planVars, rsVars, clockVars, registry>>

InitValidate ==
    /\ \E n \in 0..MaxValidateSteps : \E f \in [1..n -> ValidateShapes(n)] :
          /\ steps = ValidateSteps(n, f)
          /\ status = [p \in 1..n |-> PENDING]
          /\ result = [p \in 1..n |-> NoneV]
          /\ inputs = [p \in 1..n |-> NoneV]
          /\ answers = [p \in 1..n |-> NoneV]
    /\ config = DefaultConfig
    /\ wfStatus = PENDING
    /\ created = FALSE
    /\ activeWorkflows = {}
    /\ pc = "idle"
    /\ groups = <<>>
    /\ gi = 0
    /\ mode = "none"
    /\ inflight = {}
    /\ groupResults = <<>>
    /\ stepOutputs = EmptyDict
    /\ seqIdx = 0
    /\ calls = <<>>
    /\ ret = [op |-> "none"]
    /\ remaining = <<>>
    /\ planPc = "off"
    /\ rsDeps = <<>>
    /\ rsInput = NoneV
    /\ endTime = NoneV
    /\ now = 0
    /\ registry = <<>>

NextValidate == \E available \in Available : ValidateWorkflow(available)

SpecValidate == InitValidate /\ [][NextValidate]_vars

(***************************************************************************)
(* Properties.                                                             *)
(***************************************************************************)
RECURSIVE Flatten(_)
Flatten(grps) == IF grps = <<>> THEN <<>> ELSE Head(grps) \o Flatten(Tail(grps))

\* the state in which execute_workflow has just returned
Returned == ret.op = "execute"
\* planning succeeded in the run that has just returned
PlanningSucceeded == ret.success \/ gi >= 1

\* C1: for every acyclic workflow (ids unique, no dangling dependency) the
\* planner never raises, it terminates, and when it has returned every step
\* is a member of exactly one execution group: the groups, concatenated,
\* list each step once and list nothing else.
C1_PlanTerminatesAndCoversEachStepOnce ==
    /\ [](Acyclic(steps) => planPc # "error")
    /\ [](Acyclic(steps) /\ planPc = "done" =>
            LET flat == Flatten(groups)
            IN  Len(flat) = Len(steps) /\ Range(flat) = DOMAIN steps)
    /\ [](Acyclic(steps) => <>(planPc = "done"))

C1_Witness ==
    /\ planPc = "done"
    /\ Acyclic(steps)
    /\ Len(steps) = 3
    /\ Len(groups) = 2
    /\ \E k \in DOMAIN groups : Len(groups[k]) = 2

\* C2: when execute_workflow has returned from a run on a workflow whose
\* dependency graph has a cycle (a self dependency included), it returned
\* success = false, the workflow's status is failed and the executor was not
\* called once in that run.
C2_CycleFailsWithoutExecutorCall ==
    Returned /\ HasCycle(steps) =>
        /\ ret.success = FALSE
        /\ wfStatus = FAILED
        /\ calls = <<>>

C2_Witness ==
    /\ Returned
    /\ HasCycle(steps)
    /\ \E p \in DOMAIN steps : steps[p].depends_on = <<>>
    /\ \E p \in DOMAIN steps : steps[p].id \in Range(steps[p].depends_on)

\* the steps of the execution groups that come after the group the run stopped in
LaterGroupSteps == UNION {Range(groups[k]) : k \in (gi + 1)..Len(groups)}
\* some executor call of the run returned a failed result
SomeFailedAnswer == \E p \in DOMAIN answers : answers[p] # NoneV /\ ~answers[p][1].success

\* C3: a step is handed to the executor (its call becomes in flight) only
\* when every step of its depends_on is completed in that run or, with
\* continue_on_error, completed or failed in that run.
C3_DispatchOnlyAfterDependencies ==
    [][\A p \in DOMAIN status :
          (p \notin inflight /\ p \in inflight') =>
              \A k \in DOMAIN steps[p].depends_on :
                  LET d == GetStep(steps, steps[p].depends_on[k])
                  IN  \/ status'[d] = COMPLETED
                      \/ config.continue_on_error /\ status'[d] = FAILED]_vars

\* C4: when execute_workflow has returned from a run with continue_on_error
\* = false in which a failed result was applied, every step of a later
\* execution group is pending, was not handed to the executor and has no
\* result in the returned step results.
C4_FailureHaltsLaterGroups ==
    (Returned /\ ~config.continue_on_error /\ gi >= 1
              /\ \E p \in DOMAIN status : status[p] = FAILED) =>
        \A p \in LaterGroupSteps :
            /\ status[p] = PENDING
            /\ p \notin Range(calls)
            /\ ret.step_results[p] = NoneV

\* the input the claim C5 gives a step: the outputs of its completed
\* dependencies, in depends_on order, joined; the initial input if none
CompletedDeps(p) ==
    SelectSeq(steps[p].depends_on,
              LAMBDA d : GetStep(steps, d) # 0 /\ status[GetStep(steps, d)] = COMPLETED)
InputFromCompleted(p) ==
    LET have == CompletedDeps(p)
    IN  IF have = <<>> THEN InitialInput
        ELSE Join([k \in DOMAIN have |-> result[GetStep(steps, have[k])][1].output],
                  Separator)
DependsOnFailed(p) ==
    \E k \in DOMAIN steps[p].depends_on :
        LET d == GetStep(steps, steps[p].depends_on[k])
        IN  d # 0 /\ status[d] = FAILED

\* C5: when execute_workflow has returned from a run with continue_on_error
\* = true whose planning succeeded, every step that depends on a failed step
\* was handed to the executor, with an input made of the outputs of its
\* completed dependencies (the initial input if there is none) and free of
\* the error text.
C5_DependentsOfFailedStepsRun ==
    (Returned /\ config.continue_on_error /\ PlanningSucceeded) =>
        \A p \in DOMAIN steps : DependsOnFailed(p) =>
            /\ p \in Range(calls)
            /\ inputs[p] = Some(InputFromCompleted(p))
            /\ \A k \in DOMAIN inputs[p][1] :
                  inputs[p][1][k] \notin Range(ErrorText) \cup Range(ExceptionText)

\* C6: when execute_workflow has returned from a run in which an executor
\* call returned a failed result, then with continue_on_error = false it
\* returned success = false and the workflow is failed, and with
\* continue_on_error = true (planning having succeeded) it returned success =
\* true and the workflow is completed.
C6_FailureEscalatesOnlyWithoutContinue ==
    (Returned /\ PlanningSucceeded /\ SomeFailedAnswer) =>
        IF config.continue_on_error
        THEN ret.success = TRUE /\ wfStatus = COMPLETED
        ELSE ret.success = FALSE /\ wfStatus = FAILED

\* the input the claim C7 gives: the outputs that exist, in depends_on
\* order, with the separator between consecutive ones
RECURSIVE JoinedOutputs(_, _, _)
JoinedOutputs(have, outs, k) ==
    IF k = 1 THEN outs[have[1]]
    ELSE JoinedOutputs(have, outs, k - 1) \o Separator \o outs[have[k]]

\* C7: _resolve_step_input returns the initial input for an empty depends_on
\* and when no dependency has an output, the dependency's output for a single
\* dependency that has one, and otherwise the outputs of the dependencies
\* that have one, in depends_on order, joined by the separator; [x, y] with
\* outputs "A" and "B" gives "A", separator, "B".
C7_InputResolution ==
    rsInput # NoneV =>
        LET have == SelectSeq(rsDeps, LAMBDA d : d \in DOMAIN stepOutputs)
        IN  /\ rsDeps = <<>> => rsInput[1] = InitialInput
            /\ have = <<>> => rsInput[1] = InitialInput
            /\ (Len(rsDeps) = 1 /\ have # <<>>) => rsInput[1] = stepOutputs[rsDeps[1]]
            /\ have # <<>> => rsInput[1] = JoinedOutputs(have, stepOutputs, Len(have))
            /\ (rsDeps = <<0, 1>> /\ have = rsDeps /\ stepOutputs[0] = <<"A">>
                    /\ stepOutputs[1] = <<"B">>) =>
                  rsInput[1] = <<"A", "---", "B">>

C7_Witness ==
    /\ rsInput # NoneV
    /\ rsDeps = <<1, 2, 0>>
    /\ DOMAIN stepOutputs = {InitialKey, 0, 1}
    /\ stepOutputs[0] = <<"A">>
    /\ stepOutputs[1] = <<"B">>
    /\ rsInput[1] = <<"B", "---", "A">>

\* the output of the last declared step that is completed
OutputOf(p) == IF result[p] = NoneV THEN NoneV ELSE Some(result[p][1].output)
LastCompleted ==
    LET done == {p \in DOMAIN status : status[p] = COMPLETED}
    IN  IF done = {} THEN 0 ELSE CHOOSE p \in done : \A q \in done : q <= p
LastCompletedOutput == IF LastCompleted = 0 THEN NoneV ELSE OutputOf(LastCompleted)

\* C8 as stated: whenever execute_workflow has returned, after all groups or
\* after an abort, the final output it returned is the output of the last
\* declared step whose status is completed, none if there is no such step.
C8_FinalOutputIsLastCompleted ==
    Returned => ret.final_output = LastCompletedOutput

\* C8 as amended: when execute_workflow has returned success, the final
\* output is the output of the last declared step whose status is completed,
\* and none exactly when no step is completed; when it has returned failure
\* (the run was aborted) the final output is none.
C8_FinalOutputOnSuccessNoneOnAbort ==
    Returned =>
        IF ret.success
        THEN /\ ret.final_output = LastCompletedOutput
             /\ ret.final_output = NoneV <=> LastCompleted = 0
        ELSE ret.final_output = NoneV

C8_Witness ==
    /\ Returned
    /\ ret.success
    /\ Len(steps) = 3
    /\ status = <<COMPLETED, COMPLETED, FAILED>>
    /\ ret.final_output = Some(OkResult(steps[2].id).output)

\* C9: when execute_workflow has returned, every step whose executor call
\* returned in that run holds the returned result, and the returned step
\* results hold it too.
C9_NoReturnedResultIsDropped ==
    Returned =>
        \A p \in DOMAIN answers : answers[p] # NoneV =>
            /\ result[p] = answers[p]
            /\ ret.step_results[p] = answers[p]

\* C10: while execute_workflow waits for the executor, the members of the
\* current group have all been called together if the group has more than
\* one member, one non-null tag for all and at most parallel_limit members;
\* otherwise they are called one at a time in declaration order: the members
\* called so far are a prefix of the group and one call is in flight. The
\* calls in flight never outnumber parallel_limit.
C10_DispatchPolicy ==
    pc = "await" =>
        LET grp == groups[gi]
            tag(k) == steps[grp[k]].parallel_group
            concurrent ==
                /\ Len(grp) > 1
                /\ \A k \in DOMAIN grp : tag(k) = tag(1) /\ tag(k) # None
                /\ Len(grp) <= config.parallel_limit
            started == SelectSeq(calls, LAMBDA p : p \in Range(grp))
        IN  /\ \A i, j \in DOMAIN grp : i < j => grp[i] < grp[j]
            /\ concurrent => started = grp
            /\ ~concurrent =>
                  \E k \in DOMAIN grp :
                      started = SubSeq(grp, 1, k) /\ inflight = {grp[k]}
            /\ Cardinality(inflight) <= config.parallel_limit

C10_Witness ==
    /\ pc = "await"
    /\ Cardinality(inflight) = 2
    /\ config.parallel_limit = 2

\* the index of the execution group step object p is a member of
GroupOf(p) == CHOOSE k \in DOMAIN groups : p \in Range(groups[k])

\* C11: while execute_workflow waits for the executor, every call in flight
\* is of a member of the current group, every member of every earlier group
\* has been called and its call has returned, no member of a later group has
\* been called, and the calls of the run were made in the order of the groups.
C11_GroupBarrier ==
    pc = "await" =>
        /\ inflight # {}
        /\ inflight \subseteq Range(groups[gi])
        /\ \A k \in 1..(gi - 1) : Range(groups[k]) \subseteq Range(calls) \ inflight
        /\ \A k \in (gi + 1)..Len(groups) : Range(groups[k]) \cap Range(calls) = {}
        /\ \A i, j \in DOMAIN calls : i < j => GroupOf(calls[i]) <= GroupOf(calls[j])

C11_Witness ==
    /\ pc = "await"
    /\ gi = 2
    /\ Len(groups[1]) = 2
    /\ config.parallel_limit = 2
    /\ status[groups[1][1]] = COMPLETED
    /\ status[groups[1][2]] = FAILED
    /\ inflight = Range(groups[2])

\* C12: a cancel_workflow call on a registered workflow returns true, sets
\* the workflow's status to cancelled, stamps its end time with the clock's
\* reading, turns every running step to cancelled and leaves the status of
\* every other step and the result of every step as they were.
C12_CancelEffect ==
    [][(ret'.op = "cancel" /\ ret'.id \in activeWorkflows) =>
          /\ ret'.value = TRUE
          /\ wfStatus' = CANCELLED
          /\ now' = ReadClock(now)
          /\ endTime' = Some(now')
          /\ \A p \in DOMAIN status :
                status'[p] = IF status[p] = RUNNING THEN CANCELLED ELSE status[p]
          /\ result' = result
          /\ activeWorkflows' = activeWorkflows]_vars

C12_Witness ==
    /\ ret.op = "cancel"
    /\ ret.value = TRUE
    /\ wfStatus = CANCELLED
    /\ endTime = Some(now)
    /\ Len(status) = 3
    /\ status = <<COMPLETED, CANCELLED, PENDING>>
    /\ result[1] # NoneV

\* C13: once cancel_workflow has completed while execute_workflow is blocked
\* in an executor call (the workflow is cancelled and execute waits), no step
\* is handed to the executor any more and every cancelled step stays
\* cancelled with the result it had: the answer of its call is not applied.
C13_CancelStopsTheRun ==
    [][(pc = "await" /\ wfStatus = CANCELLED) =>
          /\ calls' = calls
          /\ \A p \in DOMAIN status :
                status[p] = CANCELLED =>
                    status'[p] = CANCELLED /\ result'[p] = result[p]]_vars

Terminal == {COMPLETED, FAILED, CANCELLED}

\* C14: a workflow reaches one terminal status: once its status is
\* completed, failed or cancelled, no step of any operation (a cancel, an
\* execute_workflow that starts or that goes on after a cancel) changes it.
C14_OneTerminalStatus ==
    [][(wfStatus \in Terminal) => (wfStatus' = wfStatus)]_vars

\* the age in hours of a workflow that has an end time
Age(wf) == now - wf.end_time[1]

\* C15: a cleanup_completed_workflows(max_age_hours) call removes from the
\* registry exactly the workflows that are completed, failed or cancelled
\* and ended more than max_age_hours ago, leaves every other workflow
\* registered as it was, and returns the number of workflows it removed.
C15_CleanupRemovesOldTerminal ==
    [][\A max_age_hours \in 0..MaxAge :
          CleanupCompletedWorkflows(max_age_hours) =>
              LET old == {id \in DOMAIN registry :
                             /\ registry[id].status \in Terminal
                             /\ Age(registry[id]) > max_age_hours}
              IN  /\ DOMAIN registry' = DOMAIN registry \ old
                  /\ \A id \in DOMAIN registry' : registry'[id] = registry[id]
                  /\ ret'.count = Cardinality(DOMAIN registry) - Cardinality(DOMAIN registry')]_vars

C15_Witness ==
    /\ ret.op = "cleanup"
    /\ ret.count = 1
    /\ ret.max_age_hours = 1
    /\ \E id \in DOMAIN registry :
          /\ registry[id].status = RUNNING
          /\ registry[id].end_time # NoneV
          /\ Age(registry[id]) > ret.max_age_hours

\* C16: after create_workflow(patterns) the workflow is pending and
\* registered, every step is pending, and there is one step per pattern, in
\* the order of the patterns: step p has the id step_{p-1}, runs patterns[p],
\* has no tag, and depends on nothing (the first) or on exactly the step
\* before it.
C16_SequentialBuilder ==
    (ret.op = "create" /\ ret.by = "create_workflow") =>
        /\ created
        /\ WfId \in activeWorkflows
        /\ wfStatus = PENDING
        /\ Len(steps) = Len(ret.patterns)
        /\ \A p \in DOMAIN steps :
              /\ steps[p].id = p - 1
              /\ steps[p].pattern = ret.patterns[p]
              /\ steps[p].parallel_group = None
              /\ status[p] = PENDING
              /\ p = 1 => steps[p].depends_on = <<>>
              /\ p > 1 => steps[p].depends_on = <<steps[p - 1].id>>

C16_Witness ==
    /\ ret.op = "create"
    /\ ret.by = "create_workflow"
    /\ ret.patterns = <<"b", "a", "b">>
    /\ Len(steps) = 3

\* the number of patterns of the first k groups of parallel_groups
RECURSIVE PatternsBefore(_, _)
PatternsBefore(pg, k) ==
    IF k = 0 THEN 0 ELSE PatternsBefore(pg, k - 1) + Len(pg[k].patterns)

\* C17: after create_parallel_workflow the steps are, group after group and
\* pattern after pattern, one step per (group, pattern) pair, tagged with the
\* group and depending on nothing, followed by one untagged step per
\* sequential pattern whose depends_on lists every step of the parallel
\* phase once; no two steps have the same id.
C17_ParallelBuilder ==
    (ret.op = "create" /\ ret.by = "create_parallel_workflow") =>
        LET pg == ret.parallel_groups
            sp == ret.sequential_patterns
            np == PatternsBefore(pg, Len(pg))
        IN  /\ Len(steps) = np + Len(sp)
            /\ \A k \in DOMAIN pg : \A i \in DOMAIN pg[k].patterns :
                  LET p == PatternsBefore(pg, k - 1) + i
                  IN  /\ steps[p].parallel_group = pg[k].tag
                      /\ steps[p].pattern = pg[k].patterns[i]
                      /\ steps[p].depends_on = <<>>
            /\ \A j \in DOMAIN sp :
                  LET p == np + j
                  IN  /\ steps[p].parallel_group = None
                      /\ steps[p].pattern = sp[j]
                      /\ Len(steps[p].depends_on) = np
                      /\ Range(steps[p].depends_on) = {steps[q].id : q \in 1..np}
            /\ UniqueIds(steps)
            /\ WfId \in activeWorkflows

C17_Witness ==
    /\ ret.op = "create"
    /\ ret.by = "create_parallel_workflow"
    /\ Len(ret.parallel_groups) = 2
    /\ ret.parallel_groups[1].tag = "h"
    /\ Len(ret.parallel_groups[1].patterns) = 2
    /\ Len(ret.parallel_groups[2].patterns) = 1
    /\ Len(ret.sequential_patterns) = 1
    /\ Len(steps) = 4

\* C18: a create_custom_workflow call on a list with a depends_on id that is
\* the id of no step of the list raises and leaves the registry and the
\* registered workflow as they were; on a list without such an id it
\* registers a workflow whose steps are the given steps in the given order.
C18_CustomBuilderRejectsDangling ==
    [][(ret'.op = "create" /\ ret'.by = "create_custom_workflow") =>
          IF NoDangling(ret'.steps)
          THEN /\ ret'.ok
               /\ activeWorkflows' = activeWorkflows \cup {WfId}
               /\ steps' = ret'.steps
          ELSE /\ ~ret'.ok
               /\ activeWorkflows' = activeWorkflows
               /\ UNCHANGED wfVars]_vars

C18_Witness ==
    /\ ret.op = "create"
    /\ ret.by = "create_custom_workflow"
    /\ ~ret.ok
    /\ created
    /\ activeWorkflows = {WfId}
    /\ steps # ret.steps

\* C19: a create_custom_workflow call on a list in which two steps have the
\* same id raises, and no workflow is registered by it.
C19_CustomBuilderRejectsDuplicateIds ==
    [][(ret'.op = "create" /\ ret'.by = "create_custom_workflow"
            /\ ~UniqueIds(ret'.steps)) =>
          /\ ~ret'.ok
          /\ activeWorkflows' = activeWorkflows]_vars

\* the step objects step object p depends on, as get_step resolves them
StepDependencies(stps, p) ==
    {GetStep(stps, stps[p].depends_on[k]) : k \in DOMAIN stps[p].depends_on} \ {0}
RECURSIVE StepsReachedFrom(_, _, _)
StepsReachedFrom(stps, front, seen) ==
    LET nxt == UNION {StepDependencies(stps, p) : p \in front} \ seen
    IN  IF nxt = {} THEN seen ELSE StepsReachedFrom(stps, nxt, seen \cup nxt)
\* some step depends, directly or through other steps, on itself
CycleAmongSteps(stps) ==
    \E p \in DOMAIN stps : p \in StepsReachedFrom(stps, {p}, {})
\* the dangling references: the places (step, index) of a depends_on id that
\* is the id of no step
DanglingReferences(stps) ==
    {<<p, k>> \in (DOMAIN stps) \X (1..MaxValidateDeps + 1) :
        k \in DOMAIN stps[p].depends_on /\ stps[p].depends_on[k] \notin StepIds(stps)}
ErrorsOfKind(errs, kind) == SelectSeq(errs, LAMBDA e : e.kind = kind)

\* C20: validate_workflow returns, in one list, the violation "no steps"
\* alone for an empty workflow, and otherwise a duplicate-id violation exactly
\* if ids repeat, one violation for each dangling reference naming its step
\* and its dependency, and a cycle violation if a step depends on itself
\* directly or through other steps; and it changes no workflow or step state.
C20_ValidateReportsEverything ==
    /\ [](ret.op = "validate" =>
            LET errs == ret.errors
            IN  IF steps = <<>> THEN errs = <<[kind |-> "no_steps"]>>
                ELSE /\ ErrorsOfKind(errs, "no_steps") = <<>>
                     /\ ~UniqueIds(steps) <=> ErrorsOfKind(errs, "duplicate_ids") # <<>>
                     /\ Len(ErrorsOfKind(errs, "dangling"))
                            = Cardinality(DanglingReferences(steps))
                     /\ \A r \in DanglingReferences(steps) :
                           [kind |-> "dangling", step |-> steps[r[1]].id,
                            dep |-> steps[r[1]].depends_on[r[2]]] \in Range(errs)
                     /\ CycleAmongSteps(steps) => ErrorsOfKind(errs, "cycle") # <<>>)
    /\ [][ret'.op = "validate" =>
             UNCHANGED <<wfVars, execVars, groups, planVars, rsVars, clockVars, registry>>]_vars

\* C21: a cancel_workflow or get_workflow_progress call with an id that is
\* not registered returns not-found (false from cancel, the error dict from
\* get_workflow_progress) and changes nothing: the registry, the workflow,
\* its steps and a run in progress are as they were.
C21_UnknownIdIsNotFound ==
    [][(ret'.op \in {"cancel", "progress"} /\ ret'.id \notin activeWorkflows) =>
          /\ ret'.op = "cancel" => ret'.value = FALSE
          /\ ret'.op = "progress" => ret' = ProgressNotFound(ret'.id)
          /\ UNCHANGED <<wfVars, execVars, groups, clockVars, registry>>]_vars

C21_Witness ==
    /\ ret = ProgressNotFound(WfId + 1)
    /\ activeWorkflows = {WfId}
    /\ pc = "await"
    /\ wfStatus = RUNNING

\* C22: whenever get_workflow_progress has returned for a registered
\* workflow, the fraction it returned equals completed steps / total steps (0
\* for a workflow without steps) and lies between 0 and 1, and the counts it
\* returned are the numbers of completed, failed and running steps; the call
\* changes no state.
C22_ProgressFraction ==
    /\ []((ret.op = "progress" /\ ret.found) =>
            LET completed == Cardinality({p \in DOMAIN status : status[p] = COMPLETED})
                total == Len(steps)
            IN  /\ ret.progress.den > 0
                /\ ret.progress.num * total = completed * ret.progress.den
                /\ total = 0 => ret.progress.num = 0
                /\ 0 <= ret.progress.num /\ ret.progress.num <= ret.progress.den
                /\ ret.total_steps = total
                /\ ret.completed_steps = completed
                /\ ret.failed_steps = Cardinality({p \in DOMAIN status : status[p] = FAILED})
                /\ ret.running_steps = Cardinality({p \in DOMAIN status : status[p] = RUNNING})
                /\ ret.status = wfStatus)
    /\ [][(ret'.op = "progress") =>
             UNCHANGED <<wfVars, execVars, groups, clockVars, registry>>]_vars

C22_Witness ==
    /\ ret.op = "progress"
    /\ ret.found
    /\ ret.progress = [num |-> 1, den |-> 3]
    /\ ret.failed_steps = 1
    /\ ret.running_steps = 1

\* C23: planning leaves no trace on the steps: when _plan_execution_groups
\* has returned, and also when it has raised the circular-dependency error,
\* every step has the status it had when planning started (pending, for the
\* fresh workflows planned here); no step is left completed by planning.
C23_PlanningLeavesNoTrace ==
    planPc \in {"done", "error"} => \A p \in DOMAIN status : status[p] = PENDING

\* C24: when the planner has returned for an acyclic workflow whose steps
\* were all pending, every dependency of every step is a member of a group
\* that comes strictly earlier in the list than the group of the step.
C24_DependenciesInEarlierGroups ==
    (planPc = "done" /\ Acyclic(steps)) =>
        \A p \in DOMAIN steps : \A k \in DOMAIN steps[p].depends_on :
            LET d == GetStep(steps, steps[p].depends_on[k])
            IN  /\ d # 0
                /\ \E i, j \in DOMAIN groups :
                      /\ d \in Range(groups[i])
                      /\ p \in Range(groups[j])
                      /\ i < j

C24_Witness ==
    /\ planPc = "done"
    /\ Acyclic(steps)
    /\ Len(steps) = 3
    /\ Len(groups) = 3
    /\ steps[1].depends_on = <<1, 2>>
    /\ steps[2].depends_on = <<2>>
    /\ groups = <<<<3>>, <<2>>, <<1>>>>

\* the groups a planning round has appended and the steps it has planned
NewGroups == SubSeq(groups', Len(groups) + 1, Len(groups'))
PlannedInRound == Range(remaining) \ Range(remaining')

\* C25 as stated: each planning round partitions its ready steps by tag: the ready
\* steps that share a tag are one execution group, and every ready step
\* without a tag is an execution group of its own, whether or not another
\* ready step of the round has a tag.
C25_RoundPartitionsByTag ==
    [][(planPc = "loop" /\ planPc' = "loop") =>
          /\ UNION {Range(NewGroups[k]) : k \in DOMAIN NewGroups} = PlannedInRound
          /\ \A k \in DOMAIN NewGroups : \A p \in Range(NewGroups[k]) :
                IF steps[p].parallel_group = None
                THEN NewGroups[k] = <<p>>
                ELSE Range(NewGroups[k]) =
                         {q \in PlannedInRound :
                             steps[q].parallel_group = steps[p].parallel_group}]_vars

\* C25 as amended: in a workflow with unique step ids, a planning round in
\* which at least one ready step has a tag partitions its ready steps by tag
\* (the ready steps that share a tag are one execution group, every ready
\* step without a tag is an execution group of its own); a round in which no
\* ready step has a tag appends all its ready steps as one execution group,
\* in declaration order.
C25_RoundPartitionsByTagIfAnyTag ==
    [][(planPc = "loop" /\ planPc' = "loop") =>
          IF \E p \in PlannedInRound : steps[p].parallel_group # None
          THEN /\ UNION {Range(NewGroups[k]) : k \in DOMAIN NewGroups} = PlannedInRound
               /\ \A k \in DOMAIN NewGroups : \A p \in Range(NewGroups[k]) :
                     IF steps[p].parallel_group = None
                     THEN NewGroups[k] = <<p>>
                     ELSE Range(NewGroups[k]) =
                              {q \in PlannedInRound :
                                  steps[q].parallel_group = steps[p].parallel_group}
          ELSE /\ Len(NewGroups) = 1
               /\ NewGroups[1] = SelectSeq(remaining, LAMBDA p : p \in PlannedInRound)]_vars

C25_Witness ==
    /\ planPc = "done"
    /\ Len(steps) = 3
    /\ steps[1].parallel_group = "g"
    /\ steps[2].parallel_group = None
    /\ steps[3].parallel_group = "g"
    /\ groups = <<<<1, 3>>, <<2>>>>

\* C26: for a workflow with unique step ids whose depends_on lists name only
\* existing steps (a list may name its own step or repeat an id),
\* validate_workflow reports a cycle exactly when the dependency graph has a
\* directed cycle, and exactly when _plan_execution_groups raises the
\* circular-dependency error on that workflow.
C26_CycleCheckAgreesWithPlanner ==
    (ret.op = "validate" /\ UniqueIds(steps) /\ NoDangling(steps)) =>
        LET reported == ErrorsOfKind(ret.errors, "cycle") # <<>>
        IN  /\ reported <=> HasCycle(steps)
            /\ reported <=> PlanExecutionGroups(steps, status).pc = "error"

\* C27: when execute_workflow has returned, with success or with failure, no
\* step is running: every step that was handed to the executor in the run is
\* completed or failed and holds a result, and every other step is pending.
C27_NoRunningStepAtReturn ==
    Returned =>
        \A p \in DOMAIN status :
            /\ status[p] # RUNNING
            /\ p \in Range(calls) => status[p] \in {COMPLETED, FAILED} /\ result[p] # NoneV
            /\ p \notin Range(calls) => status[p] = PENDING

\* C28: in every state a caller observes after a create, execute or cancel
\* call has returned, every completed step holds a result with success =
\* true; and the successful_steps count execute_workflow returns is the number
\* of steps whose executor call succeeded in that run.
C28_CompletedMeansSucceeded ==
    /\ ret.op \in {"create", "execute", "cancel"} =>
          \A p \in DOMAIN status :
              status[p] = COMPLETED => result[p] # NoneV /\ result[p][1].success
    /\ Returned =>
          ret.successful_steps =
              Cardinality({p \in DOMAIN answers : answers[p] # NoneV /\ answers[p][1].success})

\* C29: with continue_on_error = false, once an executor call of the run has
\* returned a failed result no further executor call is started in that run:
\* the step in which the failed result arrives, and every later step of the
\* run, adds no call (the remaining members of a group that is run one at a
\* time included).
C29_NoCallAfterFailure ==
    [][(/\ ~config.continue_on_error
        /\ pc = "await"
        /\ \E p \in DOMAIN answers' : answers'[p] # NoneV /\ ~answers'[p][1].success) =>
          calls' = calls]_vars

\* C30: an exception raised by the executor is handled alike on every
\* dispatch path: it becomes a failed result of the step whose call raised
\* (gathered with the results of its group, then recorded on the step with
\* status failed), and it makes execute_workflow return failure only when
\* continue_on_error is false.
C30_ExceptionsHandledAlike ==
    [][\A p \in DOMAIN steps :
          ExecutorRaises(p) =>
              /\ \/ \E k \in DOMAIN groupResults' :
                       groupResults'[k] = [id |-> steps[p].id, res |-> ExceptionResult]
                 \/ status'[p] = FAILED /\ result'[p] = Some(ExceptionResult)
              /\ config.continue_on_error => (pc' = "idle" => ret'.success)
              /\ (~config.continue_on_error /\ pc' = "idle") => ~ret'.success]_vars

====
